---- MODULE Spec2Model ----
(***************************************************************************)
(* One-hot encoding / alignment pipeline of the gene-expression notebooks. *)
(* Two variants of the pipeline exist in the repository:                   *)
(*   "no_strand" : src/code/basic_neural_network.ipynb (strand correction  *)
(*                 commented out, only *.fa files are read)                *)
(*   "strand"    : src/unnamed/part_000 (to_positive_strand is called, all *)
(*                 files of the directory are read)                        *)
(* Strings are modelled as sequences of one-character strings so that      *)
(* split, int and endswith are computed character by character.            *)
(***************************************************************************)
EXTENDS Integers, Sequences, FiniteSets, TLC

VARIABLES variant, training_size, test_size, listing, file_pos, file_count,
          X_train, y_train, X_test, y_test, pc, calls, log

vars == <<variant, training_size, test_size, listing, file_pos, file_count,
          X_train, y_train, X_test, y_test, pc, calls, log>>

\* ------------------------------------------------------------------ bounds
\* number of direct process_seq_record / read_file calls explored by Spec
MaxCalls == 2
\* longest directory listing explored by SpecSplit
MaxFiles == 3
\* largest training_size / test_size explored by SpecSplit
MaxSize == 2

\* ------------------------------------------------------- program constants
\* align_sequence(4000, flattened_seq)
TargetLen == 4000

Variants == {"no_strand", "strand"}

\* ------------------------------------------------------------ base_pairs
base_pairs_g_as_c ==
    ("A" :> <<1, 0, 0, 0>>) @@ ("C" :> <<0, 1, 0, 0>>) @@
    ("G" :> <<0, 0, 1, 0>>) @@ ("T" :> <<0, 0, 0, 1>>) @@
    ("a" :> <<1, 0, 0, 0>>) @@ ("c" :> <<0, 1, 0, 0>>) @@
    ("g" :> <<0, 1, 0, 0>>) @@ ("t" :> <<0, 0, 0, 1>>) @@
    ("n" :> <<0, 0, 0, 0>>) @@ ("N" :> <<0, 0, 0, 0>>)

base_pairs_n_all_true ==
    ("A" :> <<1, 0, 0, 0>>) @@ ("C" :> <<0, 1, 0, 0>>) @@
    ("G" :> <<0, 0, 1, 0>>) @@ ("T" :> <<0, 0, 0, 1>>) @@
    ("a" :> <<1, 0, 0, 0>>) @@ ("c" :> <<0, 1, 0, 0>>) @@
    ("g" :> <<0, 0, 1, 0>>) @@ ("t" :> <<0, 0, 0, 1>>) @@
    ("n" :> <<1, 1, 1, 1>>) @@ ("N" :> <<1, 1, 1, 1>>)

base_pairs_g_two_ones ==
    ("A" :> <<1, 0, 0, 0>>) @@ ("C" :> <<0, 1, 0, 0>>) @@
    ("G" :> <<0, 0, 1, 0>>) @@ ("T" :> <<0, 0, 0, 1>>) @@
    ("a" :> <<1, 0, 0, 0>>) @@ ("c" :> <<0, 1, 0, 0>>) @@
    ("g" :> <<0, 1, 1, 0>>) @@ ("t" :> <<0, 0, 0, 1>>) @@
    ("n" :> <<0, 0, 0, 0>>) @@ ("N" :> <<0, 0, 0, 0>>)

base_pairs ==
    ("A" :> <<1, 0, 0, 0>>) @@ ("C" :> <<0, 1, 0, 0>>) @@
    ("G" :> <<0, 0, 1, 0>>) @@ ("T" :> <<0, 0, 0, 1>>) @@
    ("a" :> <<1, 0, 0, 0>>) @@ ("c" :> <<0, 1, 0, 0>>) @@
    ("g" :> <<0, 0, 1, 0>>) @@ ("t" :> <<0, 0, 0, 1>>) @@
    ("n" :> <<0, 0, 0, 0>>) @@ ("N" :> <<0, 0, 0, 0>>)

\* ------------------------------------------------------- align_sequence
Zeros(n) == [i \in 1..n |-> 0]

align_sequence_no_truncate(length, sequence) ==
    IF Len(sequence) > length
      THEN sequence
      ELSE sequence \o Zeros(length - Len(sequence))

align_sequence_keep_tail(length, sequence) ==
    IF Len(sequence) > length
      THEN SubSeq(sequence, Len(sequence) - length + 1, Len(sequence))
      ELSE sequence \o Zeros(length - Len(sequence))

align_sequence_pad_left(length, sequence) ==
    IF Len(sequence) > length
      THEN SubSeq(sequence, 1, length)
      ELSE Zeros(length - Len(sequence)) \o sequence

\* sequence[:length] when too long, sequence + [0]*(length-len) otherwise
align_sequence(length, sequence) ==
    IF Len(sequence) > length
      THEN SubSeq(sequence, 1, length)
      ELSE sequence \o Zeros(length - Len(sequence))

\* ------------------------------------------------------------ complement
\* Bio.Seq.complement(): base by base, case kept, order kept; a letter the
\* table does not hold is left as it is.
complement_table ==
    ("A" :> "T") @@ ("T" :> "A") @@ ("C" :> "G") @@ ("G" :> "C") @@
    ("a" :> "t") @@ ("t" :> "a") @@ ("c" :> "g") @@ ("g" :> "c") @@
    ("N" :> "N") @@ ("n" :> "n")

complement(sequence) ==
    [i \in 1..Len(sequence) |->
        IF sequence[i] \in DOMAIN complement_table
          THEN complement_table[sequence[i]]
          ELSE sequence[i]]

\* [base_pairs[n] for n in sequence]: KeyError on the first missing key
encode_symbols(sequence) ==
    IF \E i \in 1..Len(sequence) : sequence[i] \notin DOMAIN base_pairs
      THEN [err |-> "KeyError", val |-> <<>>]
      ELSE [err |-> "none",
            val |-> [i \in 1..Len(sequence) |-> base_pairs[sequence[i]]]]

to_positive_strand(strand, sequence) ==
    IF strand = <<"-">>
      THEN encode_symbols(complement(sequence))
      ELSE encode_symbols(sequence)

RECURSIVE flatten_reversed(_)
flatten_reversed(unflattened_seq) ==
    IF Len(unflattened_seq) = 0 THEN <<>>
    ELSE flatten_reversed(Tail(unflattened_seq)) \o Head(unflattened_seq)

\* [i for x in unflattened_seq for i in x]: the codes joined in order
RECURSIVE flatten(_)
flatten(unflattened_seq) ==
    IF Len(unflattened_seq) = 0 THEN <<>>
    ELSE IF Len(unflattened_seq) = 1 THEN unflattened_seq[1]
    ELSE LET h == Len(unflattened_seq) \div 2
         IN  flatten(SubSeq(unflattened_seq, 1, h))
               \o flatten(SubSeq(unflattened_seq, h + 1, Len(unflattened_seq)))

\* ------------------------------------------------------ str.split, int()
\* description.split('|'): the fields between the separators, empty ones kept
RECURSIVE split(_, _)
split(s, sep) ==
    IF \A i \in 1..Len(s) : s[i] # sep
      THEN <<s>>
      ELSE LET k == CHOOSE i \in 1..Len(s) :
                       s[i] = sep /\ \A j \in 1..(i - 1) : s[j] # sep
           IN  <<SubSeq(s, 1, k - 1)>> \o split(SubSeq(s, k + 1, Len(s)), sep)

DigitValue ==
    ("0" :> 0) @@ ("1" :> 1) @@ ("2" :> 2) @@ ("3" :> 3) @@ ("4" :> 4) @@
    ("5" :> 5) @@ ("6" :> 6) @@ ("7" :> 7) @@ ("8" :> 8) @@ ("9" :> 9)

IsDigits(s) == Len(s) > 0 /\ \A i \in 1..Len(s) : s[i] \in DOMAIN DigitValue

RECURSIVE DigitsValue(_)
DigitsValue(s) ==
    IF Len(s) = 0 THEN 0
    ELSE 10 * DigitsValue(SubSeq(s, 1, Len(s) - 1)) + DigitValue[s[Len(s)]]

\* int(text): an optional sign and decimal digits, ValueError otherwise
int(text) ==
    IF IsDigits(text) THEN [err |-> "none", val |-> DigitsValue(text)]
    ELSE IF Len(text) > 1 /\ text[1] = "-" /\ IsDigits(Tail(text))
      THEN [err |-> "none", val |-> 0 - DigitsValue(Tail(text))]
    ELSE IF Len(text) > 1 /\ text[1] = "+" /\ IsDigits(Tail(text))
      THEN [err |-> "none", val |-> DigitsValue(Tail(text))]
    ELSE [err |-> "ValueError", val |-> 0]

\* file.endswith(".fa")
endswith(name, suffix) ==
    /\ Len(name) >= Len(suffix)
    /\ SubSeq(name, Len(name) - Len(suffix) + 1, Len(name)) = suffix

\* ---------------------------------------------------- process_seq_record
\* The unflattened sequence of the record in the given variant: header[3] is
\* read (IndexError when absent) only where to_positive_strand is called.
unflatten(v, header, seq) ==
    IF v = "strand"
      THEN IF Len(header) < 4
             THEN [err |-> "IndexError", val |-> <<>>]
             ELSE to_positive_strand(header[4], seq)
      ELSE encode_symbols(seq)

process_seq_record_length_by_collection(v, seq_record, X, y) ==
    LET header == split(seq_record.description, "|")
    IN  IF Len(header) < 2
          THEN [X |-> X, y |-> y, err |-> "IndexError"]
        ELSE IF int(header[2]).err # "none"
          THEN [X |-> X, y |-> y, err |-> "ValueError"]
        ELSE
          LET expressed == int(header[2]).val
              y1 == Append(y, expressed)
              u == unflatten(v, header, seq_record.seq)
          IN  IF u.err # "none"
                THEN [X |-> X, y |-> y1, err |-> u.err]
                ELSE [X |-> Append(X, align_sequence(TargetLen - Len(X),
                                                     flatten(u.val))),
                      y |-> y1, err |-> "none"]

\* The call's outcome: the collections afterwards and the exception raised.
\* y.append(expressed) runs before the sequence is looked at.
process_seq_record(v, seq_record, X, y) ==
    LET header == split(seq_record.description, "|")
    IN  IF Len(header) < 2
          THEN [X |-> X, y |-> y, err |-> "IndexError"]
        ELSE IF int(header[2]).err # "none"
          THEN [X |-> X, y |-> y, err |-> "ValueError"]
        ELSE
          LET expressed == int(header[2]).val
              y1 == Append(y, expressed)
              u == unflatten(v, header, seq_record.seq)
          IN  IF u.err # "none"
                THEN [X |-> X, y |-> y1, err |-> u.err]
                ELSE [X |-> Append(X, align_sequence(TargetLen, flatten(u.val))),
                      y |-> y1, err |-> "none"]

\* ------------------------------------------------------------- read_file
\* What one call left behind: the record, the exception raised ("none" when it
\* returned), the lengths of the two collections after it, the pair it was
\* given and the number of the top-level call it was part of.
Entry(seq_record, r, to, call) ==
    [rec |-> seq_record, err |-> r.err, nX |-> Len(r.X), ny |-> Len(r.y),
     to |-> to, call |-> call]

\* for i in range(len(seq_record_list)): process_seq_record(...); the first
\* exception ends the loop.  log lists the calls made.
RECURSIVE read_records(_, _, _, _, _, _)
read_records(v, seq_record_list, X, y, to, call) ==
    IF Len(seq_record_list) = 0
      THEN [X |-> X, y |-> y, err |-> "none", log |-> <<>>]
      ELSE LET r == process_seq_record(v, Head(seq_record_list), X, y)
               e == Entry(Head(seq_record_list), r, to, call)
           IN  IF r.err # "none"
                 THEN [X |-> r.X, y |-> r.y, err |-> r.err, log |-> <<e>>]
                 ELSE LET rest == read_records(v, Tail(seq_record_list),
                                               r.X, r.y, to, call)
                      IN  [X |-> rest.X, y |-> rest.y, err |-> rest.err,
                           log |-> <<e>> \o rest.log]

\* list(SeqIO.parse(path + file, "fasta")) is the file's records
read_file(v, file, X, y, to, call) ==
    read_records(v, file.records, X, y, to, call)

\* ---------------------------------------------------------------- inputs
\* Record descriptions, character by character.
Desc_plus1 == <<"i", "d", "|", "1", "|", "e", "x", "t", "r", "a", "|", "+">>
Desc_minus0 == <<"i", "d", "|", "0", "|", "e", "x", "t", "r", "a", "|", "-">>
Desc_3fields == <<"i", "d", "|", "1", "|", "e", "x", "t", "r", "a">>
Desc_1field == <<"i", "d">>
Desc_nonint == <<"i", "d", "|", "x", "|", "e", "x", "t", "r", "a", "|", "+">>
Desc_label(d, strand) == <<"i", "d", "|", d, "|", "e", "|", strand>>

\* Nucleotide sequences; the long ones repeat a pattern of all ten symbols.
Pattern == <<"A", "C", "G", "T", "N", "a", "c", "g", "t", "n">>
Rep(p, n) == [i \in 1..n |-> p[((i - 1) % Len(p)) + 1]]
SymbolCap == TargetLen \div 4

Seq_ACGTN == <<"A", "C", "G", "T", "N">>
Seq_AACG == <<"A", "A", "C", "G">>
Seq_ACG == <<"A", "C", "G">>
Seq_AXG == <<"A", "X", "G">>
Seq_below == Rep(Pattern, SymbolCap - 1)
Seq_exact == Rep(Pattern, SymbolCap)
Seq_above1 == Rep(Pattern, SymbolCap) \o <<"G">>
Seq_above2 == Rep(Pattern, SymbolCap) \o <<"T", "A">>

ValidSeqs == {<<>>, Seq_ACGTN, Seq_below, Seq_exact, Seq_above1, Seq_above2}

Rec(d, s) == [description |-> d, seq |-> s]

\* The records handed to process_seq_record directly.
Records ==
    {Rec(Desc_plus1, s) : s \in ValidSeqs \cup {Seq_AXG}}
      \cup {Rec(Desc_minus0, s) : s \in {Seq_AACG, Seq_above1}}
      \cup {Rec(d, Seq_ACGTN) : d \in {Desc_3fields, Desc_1field, Desc_nonint}}

\* Files of the data directory: a name and the records SeqIO.parse yields.
\* Every record of a file carries the file's own label.
File_a == [name |-> <<"a", ".", "f", "a">>,
           records |-> <<Rec(Desc_label("1", "+"), Seq_ACGTN)>>]
File_b == [name |-> <<"b", ".", "f", "a">>,
           records |-> <<Rec(Desc_label("2", "-"), Seq_AACG),
                         Rec(Desc_label("2", "+"), Seq_ACG)>>]
File_c == [name |-> <<"c", ".", "f", "a", "s", "t", "a">>,
           records |-> <<Rec(Desc_label("3", "+"), Pattern),
                         Rec(Desc_label("3", "+"), <<"N", "n", "N">>)>>]
File_d == [name |-> <<"d", ".", "f", "a">>,
           records |-> <<Rec(Desc_label("4", "+"), Seq_ACG),
                         Rec(Desc_label("4", "+"), Seq_AXG)>>]

Files == {File_a, File_b, File_c, File_d}

\* os.listdir: the files of the directory, each once, in any order
Listings ==
    UNION {{l \in [1..n -> Files] : \A i, j \in 1..n : l[i] = l[j] => i = j}
             : n \in 0..MaxFiles}

\* ------------------------------------------------- direct calls (Spec)
Init ==
    /\ variant \in Variants
    /\ training_size = 0 /\ test_size = 0
    /\ listing = <<>> /\ file_pos = 0 /\ file_count = 0
    /\ X_train = <<>> /\ y_train = <<>>
    /\ X_test = <<>> /\ y_test = <<>>
    /\ pc = "calls" /\ calls = 0
    /\ log = <<>>

\* process_seq_record(seq_record, X_train, y_train)
ProcessSeqRecord(seq_record) ==
    /\ pc = "calls" /\ calls < MaxCalls
    /\ LET r == process_seq_record(variant, seq_record, X_train, y_train)
       IN  /\ X_train' = r.X
           /\ y_train' = r.y
           /\ log' = Append(log, Entry(seq_record, r, "train", calls + 1))
    /\ calls' = calls + 1
    /\ UNCHANGED <<variant, training_size, test_size, listing, file_pos,
                   file_count, X_test, y_test, pc>>

\* read_file(file, X_train, y_train)
ReadFile(file) ==
    /\ pc = "calls" /\ calls < MaxCalls
    /\ LET r == read_file(variant, file, X_train, y_train, "train", calls + 1)
       IN  /\ X_train' = r.X
           /\ y_train' = r.y
           /\ log' = log \o r.log
    /\ calls' = calls + 1
    /\ UNCHANGED <<variant, training_size, test_size, listing, file_pos,
                   file_count, X_test, y_test, pc>>

Next ==
    \/ \E seq_record \in Records : ProcessSeqRecord(seq_record)
    \/ \E file \in Files : ReadFile(file)

Spec == Init /\ [][Next]_vars

\* --------------------------------------------- the split loop (SpecSplit)
\* training_size is 500 and test_size 50 (20 in the other notebook) in the
\* source; the loop is explored for every pair of sizes up to MaxSize.
InitSplit ==
    /\ variant \in Variants
    /\ training_size \in 0..MaxSize
    /\ test_size \in 0..MaxSize
    /\ listing \in Listings
    /\ file_pos = 0 /\ file_count = 0
    /\ X_train = <<>> /\ y_train = <<>>
    /\ X_test = <<>> /\ y_test = <<>>
    /\ pc = "loop" /\ calls = 0
    /\ log = <<>>

\* if file.endswith(".fa"): present in basic_neural_network.ipynb only
Counted(v, file) == v = "strand" \/ endswith(file.name, <<".", "f", "a">>)

Target_inclusive(count, n_train, n_test) ==
    IF count <= n_train THEN "train"
    ELSE IF count <= n_train + n_test THEN "test"
    ELSE "unused"

\* where the file's records go: "train", "test" or "unused"
Target(count, n_train, n_test) ==
    IF count < n_train THEN "train"
    ELSE IF count < n_train + n_test THEN "test"
    ELSE "unused"

\* One iteration of: for file in os.listdir(...)
SplitStep ==
    /\ pc = "loop" /\ file_pos < Len(listing)
    /\ LET file == listing[file_pos + 1]
           t == IF Counted(variant, file)
                  THEN Target(file_count, training_size, test_size)
                  ELSE "skipped"
           r == IF t = "train"
                  THEN read_file(variant, file, X_train, y_train, "train",
                                 file_pos + 1)
                ELSE IF t = "test"
                  THEN read_file(variant, file, X_test, y_test, "test",
                                 file_pos + 1)
                ELSE [X |-> <<>>, y |-> <<>>, err |-> "none", log |-> <<>>]
       IN  /\ X_train' = IF t = "train" THEN r.X ELSE X_train
           /\ y_train' = IF t = "train" THEN r.y ELSE y_train
           /\ X_test' = IF t = "test" THEN r.X ELSE X_test
           /\ y_test' = IF t = "test" THEN r.y ELSE y_test
           /\ log' = log \o r.log
           /\ pc' = IF r.err # "none" THEN "error" ELSE "loop"
           /\ file_pos' = IF r.err # "none" THEN file_pos ELSE file_pos + 1
           /\ file_count' = IF r.err = "none" /\ t # "skipped"
                              THEN file_count + 1 ELSE file_count
    /\ UNCHANGED <<variant, training_size, test_size, listing, calls>>

\* the listing is exhausted
SplitExit ==
    /\ pc = "loop" /\ file_pos = Len(listing)
    /\ pc' = "done"
    /\ UNCHANGED <<variant, training_size, test_size, listing, file_pos,
                   file_count, X_train, y_train, X_test, y_test, calls, log>>

NextSplit == SplitStep \/ SplitExit

SpecSplit == InitSplit /\ [][NextSplit]_vars

\* ================================================================ claims
\* Helpers of the statements below.
Alphabet == {"A", "C", "G", "T", "a", "c", "g", "t", "N", "n"}

TableValue(s) ==
    CASE s \in {"A", "a"} -> <<1, 0, 0, 0>>
      [] s \in {"C", "c"} -> <<0, 1, 0, 0>>
      [] s \in {"G", "g"} -> <<0, 0, 1, 0>>
      [] s \in {"T", "t"} -> <<0, 0, 0, 1>>
      [] s \in {"N", "n"} -> <<0, 0, 0, 0>>

AllValid(seq) == \A k \in 1..Len(seq) : seq[k] \in Alphabet

Min(a, b) == IF a < b THEN a ELSE b

\* the calls of the latest top-level call: each call is judged in the state
\* it leaves behind
Calls == {i \in 1..Len(log) : log[i].call = calls}
Ok(i) == log[i].err = "none"
PrevX(i) == IF i = 1 THEN 0 ELSE log[i - 1].nX
PrevY(i) == IF i = 1 THEN 0 ELSE log[i - 1].ny
\* the vector and the label a returned call appended (calls of Spec go to the
\* training pair)
Vec(i) == X_train[log[i].nX]
Label(i) == y_train[log[i].ny]

FieldsOf(i) == split(log[i].rec.description, "|")
WellFormed(i) == Len(FieldsOf(i)) >= 4 /\ IsDigits(FieldsOf(i)[2])
MinusStrand(i) == Len(FieldsOf(i)) >= 4 /\ FieldsOf(i)[4] = <<"-">>
\* the symbols the variant encodes: complemented where strand correction ran
Shown(i) ==
    IF variant = "strand" /\ MinusStrand(i)
      THEN complement(log[i].rec.seq) ELSE log[i].rec.seq

\* code of the symbols of seq by the program's table, one entry at a time
CodesOf(seq) ==
    LET s == seq
    IN  [k \in 1..(4 * Len(s)) |->
            base_pairs[s[((k - 1) \div 4) + 1]][((k - 1) % 4) + 1]]

\* C1: a record of valid symbols never fails after its description is parsed,
\* and every vector in X has exactly 4000 entries whatever the record's length.
C1_LengthAlways4000 ==
    /\ \A k \in 1..Len(X_train) : Len(X_train[k]) = 4000
    /\ \A i \in Calls :
         AllValid(log[i].rec.seq) =>
           /\ log[i].err \in {"none", "IndexError", "ValueError"}
           /\ WellFormed(i) =>
                Ok(i) /\ log[i].nX = PrevX(i) + 1 /\ Len(Vec(i)) = 4000

C1_Witness ==
    \E i \in Calls :
        Ok(i) /\ Len(log[i].rec.seq) = 1001 /\ Len(Vec(i)) = 4000

\* C2: a call that meets a symbol outside the alphabet fails and changes
\* neither X nor y.
C2_NoPartialOutput ==
    \A i \in Calls :
        ~AllValid(log[i].rec.seq) =>
            ~Ok(i) /\ log[i].nX = PrevX(i) /\ log[i].ny = PrevY(i)

\* C3: a sequence of more than 1000 symbols encodes to the codes of its first
\* 1000 symbols only; records that agree there encode to the same vector.
C3_TruncationKeepsPrefix ==
    /\ \A i \in Calls :
         Ok(i) /\ Len(log[i].rec.seq) > 1000 =>
            Vec(i) = CodesOf(SubSeq(Shown(i), 1, 1000))
    /\ \A i, j \in 1..Len(log) :
         (/\ Ok(i) /\ Ok(j)
          /\ log[i].rec.description = log[j].rec.description
          /\ Len(log[i].rec.seq) > 1000 /\ Len(log[j].rec.seq) > 1000
          /\ SubSeq(log[i].rec.seq, 1, 1000) = SubSeq(log[j].rec.seq, 1, 1000))
         => Vec(i) = Vec(j)

C3_Witness ==
    \E i, j \in 1..Len(log) :
        /\ Ok(i) /\ Ok(j)
        /\ log[i].rec.description = log[j].rec.description
        /\ Len(log[i].rec.seq) = 1001 /\ Len(log[j].rec.seq) = 1002
        /\ Vec(i) = Vec(j)

\* C4: a sequence of L < 1000 symbols encodes to its 4*L code entries followed
\* by zeros only; a sequence of exactly 1000 symbols encodes to its codes as
\* they are.
C4_RightZeroPadding ==
    \A i \in Calls :
        Ok(i) /\ Len(log[i].rec.seq) <= 1000 =>
            LET L == Len(log[i].rec.seq)
                vec == Vec(i)
            IN  /\ SubSeq(vec, 1, 4 * L) = CodesOf(Shown(i))
                /\ \A k \in (4 * L + 1)..4000 : vec[k] = 0
                /\ Len(vec) = 4000
                /\ L = 1000 => vec = CodesOf(Shown(i))

C4_Witness ==
    \E i, j \in 1..Len(log) :
        /\ Ok(i) /\ Len(log[i].rec.seq) = 999 /\ Vec(i)[4000] = 0
        /\ Ok(j) /\ Len(log[j].rec.seq) = 1000

\* C5: the table holds exactly the ten symbols A C G T a c g t N n, and every
\* symbol is encoded by its table value, in both letter cases.
C5_TableValues ==
    /\ DOMAIN base_pairs = Alphabet
    /\ \A i \in Calls :
         Ok(i) =>
           LET shown == Shown(i)
               vec == Vec(i)
           IN  /\ AllValid(log[i].rec.seq)
               /\ \A p \in 1..Min(Len(shown), 1000) :
                    SubSeq(vec, 4 * p - 3, 4 * p) = TableValue(shown[p])

C5_Witness ==
    \E i \in Calls :
        Ok(i) /\ {log[i].rec.seq[k] : k \in 1..Len(log[i].rec.seq)} = Alphabet
              /\ Len(log[i].rec.seq) = 10

\* Watson-Crick complement, letter case kept, and the reverse complement.
ComplementOf(s) ==
    CASE s = "A" -> "T" [] s = "T" -> "A" [] s = "C" -> "G" [] s = "G" -> "C"
      [] s = "a" -> "t" [] s = "t" -> "a" [] s = "c" -> "g" [] s = "g" -> "c"
      [] OTHER -> s

ReverseComplement(seq) ==
    [k \in 1..Len(seq) |-> ComplementOf(seq[Len(seq) + 1 - k])]

\* C6: with strand correction, a record on strand '-' is encoded from the
\* reverse complement of its sequence, any other record from its sequence.
C6_ReverseComplementOnMinus ==
    \A i \in Calls :
        variant = "strand" /\ Ok(i) =>
            LET n == 4 * Min(Len(log[i].rec.seq), 1000)
                src == IF MinusStrand(i)
                         THEN ReverseComplement(log[i].rec.seq)
                         ELSE log[i].rec.seq
            IN  SubSeq(Vec(i), 1, n) = SubSeq(CodesOf(src), 1, n)

\* C7: a record whose description has fewer than 4 fields, or a label field
\* that is no integer, makes the call fail and appends nothing to X or y.
C7_MalformedAppendsNothing ==
    \A i \in Calls :
        ~WellFormed(i) =>
            ~Ok(i) /\ log[i].nX = PrevX(i) /\ log[i].ny = PrevY(i)

\* C8: after any calls, returned or failed, X and y have the same length.
C8_EqualLengths ==
    /\ Len(X_train) = Len(y_train)
    /\ Len(X_test) = Len(y_test)

\* Helpers of the split statements: file names, labels and positions.
EndsFa(name) ==
    /\ Len(name) >= 3
    /\ name[Len(name) - 2] = "." /\ name[Len(name) - 1] = "f"
    /\ name[Len(name)] = "a"

LabelsOfFile(file) ==
    [k \in 1..Len(file.records) |->
        int(split(file.records[k].description, "|")[2]).val]

\* the labels of the files at the positions S of the listing, in listing order
RECURSIVE LabelsUpTo(_, _)
LabelsUpTo(n, S) ==
    IF n = 0 THEN <<>>
    ELSE LabelsUpTo(n - 1, S)
           \o (IF n \in S THEN LabelsOfFile(listing[n]) ELSE <<>>)

ComesFrom(labels, S) ==
    \A k \in 1..Len(labels) :
        \E i \in S : \E m \in 1..Len(listing[i].records) :
            LabelsOfFile(listing[i])[m] = labels[k]

Positions == 1..Len(listing)
\* the files the loop counts, and the rank of each among them
CountedAt == {i \in Positions : variant = "strand" \/ EndsFa(listing[i].name)}
Rank(i) == Cardinality({k \in CountedAt : k <= i})

SplitAs(train, test) ==
    /\ ComesFrom(y_train, train)
    /\ ComesFrom(y_test, test)
    /\ \A k \in 1..Len(y_train) : \A m \in 1..Len(y_test) : y_train[k] # y_test[m]
    /\ pc = "done" =>
         /\ y_train = LabelsUpTo(Len(listing), train)
         /\ y_test = LabelsUpTo(Len(listing), test)
         /\ Len(X_train) = Len(y_train) /\ Len(X_test) = Len(y_test)

\* C9 as stated: the first training_size files of the listing go to training,
\* the next test_size files to test, later files are unused, none is in both.
C9_SplitByListingPosition ==
    SplitAs({i \in Positions : i <= training_size},
            {i \in Positions :
                training_size < i /\ i <= training_size + test_size})

\* C9 as amended: the counts run over the files the loop counts (all files in
\* one variant, the files named *.fa in the other); other files are skipped.
C9_SplitByCountedOrder ==
    SplitAs({i \in CountedAt : Rank(i) <= training_size},
            {i \in CountedAt :
                training_size < Rank(i)
                  /\ Rank(i) <= training_size + test_size})

C9_Witness ==
    /\ pc = "done" /\ variant = "no_strand"
    /\ Len(y_train) > 0 /\ Len(y_test) > 0
    /\ \E i \in Positions :
          i \notin CountedAt /\ i <= training_size + test_size

\* C10: flattening keeps the order of the symbols: entry 4*p + j is component
\* j of the code of symbol p; 'id|1|extra|+' with ACGTN gives label 1 and the
\* codes of A, C, G, T, N followed by 3980 zeros.
C10_FlattenKeepsOrder ==
    \A i \in Calls :
        Ok(i) =>
          /\ LET shown == Shown(i)
                 vec == Vec(i)
             IN  \A p \in 0..(Min(Len(shown), 1000) - 1) : \A j \in 0..3 :
                    vec[4 * p + j + 1] = base_pairs[shown[p + 1]][j + 1]
          /\ log[i].rec = Rec(Desc_plus1, Seq_ACGTN) =>
                /\ Label(i) = 1
                /\ Vec(i) = <<1, 0, 0, 0,  0, 1, 0, 0,  0, 0, 1, 0,
                              0, 0, 0, 1,  0, 0, 0, 0>> \o Zeros(3980)

C10_Witness ==
    \E i \in Calls :
        Ok(i) /\ log[i].rec = Rec(Desc_plus1, Seq_ACGTN) /\ Label(i) = 1

\* C11: encoding is deterministic: calls on identical records end the same way
\* and append identical vectors and labels, whatever the collections held and
\* whatever was encoded before.
C11_Deterministic ==
    \A i, j \in 1..Len(log) :
        log[i].rec = log[j].rec =>
            /\ log[i].err = log[j].err
            /\ Ok(i) => Vec(i) = Vec(j) /\ Label(i) = Label(j)

C11_Witness ==
    \E i, j \in 1..Len(log) :
        /\ i = 1 /\ j > 2
        /\ log[i].rec = log[j].rec /\ Ok(i) /\ Ok(j)
        /\ log[j - 1].rec # log[j].rec /\ Ok(j - 1)
        /\ Vec(i) = Vec(j) /\ Vec(j - 1) # Vec(j)

\* the sequence without the N and n symbols at its end
RECURSIVE StripN(_)
StripN(seq) ==
    IF Len(seq) > 0 /\ seq[Len(seq)] \in {"N", "n"}
      THEN StripN(SubSeq(seq, 1, Len(seq) - 1))
      ELSE seq

\* C12: N and n encode like padding: a sequence of fewer than 1000 symbols
\* followed by any number of N/n symbols encodes to the vector of the sequence
\* alone; a sequence of N's only encodes to the all-zero vector of the empty
\* sequence.
C12_AmbiguousLikePadding ==
    /\ \A i \in Calls :
         Ok(i) =>
           LET s == StripN(Shown(i))
           IN  Len(s) < 1000 =>
                 Vec(i) = CodesOf(s) \o Zeros(4000 - 4 * Len(s))
    /\ \A i, j \in 1..Len(log) :
         (/\ Ok(i) /\ Ok(j)
          /\ Len(StripN(Shown(i))) < 1000
          /\ StripN(Shown(i)) = StripN(Shown(j)))
         => Vec(i) = Vec(j)

C12_Witness ==
    \E i, j, k \in 1..Len(log) :
        /\ Ok(i) /\ Ok(j) /\ Ok(k)
        /\ Len(log[i].rec.seq) = 0
        /\ Len(log[j].rec.seq) = 3 /\ StripN(log[j].rec.seq) = <<>>
        /\ Vec(i) = Vec(j) /\ Vec(j) = Zeros(4000)
        /\ Len(StripN(log[k].rec.seq)) \in 1..(Len(log[k].rec.seq) - 1)

\* every entry is 0 or 1 and each of the 1000 blocks of four holds at most one 1
OneHotBlocks(vec) ==
    /\ Len(vec) = 4000
    /\ \A k \in 1..4000 : vec[k] \in {0, 1}
    /\ \A b \in 0..999 :
         vec[4 * b + 1] + vec[4 * b + 2] + vec[4 * b + 3] + vec[4 * b + 4] <= 1

\* C13: every vector stored in X has all entries in {0,1}, and each of its 1000
\* aligned blocks of four entries holds at most one 1, truncated or not.
C13_BlocksAtMostOneHot ==
    /\ \A k \in 1..Len(X_train) : OneHotBlocks(X_train[k])
    /\ \A k \in 1..Len(X_test) : OneHotBlocks(X_test[k])

C13_Witness ==
    \E i \in Calls :
        /\ Ok(i) /\ Len(log[i].rec.seq) > 1000
        /\ Vec(i)[3996] = 1 /\ OneHotBlocks(Vec(i))

\* the vector and the label the record of call i encodes to
ExpectedVec(i) ==
    LET c == CodesOf(Shown(i))
    IN  IF Len(c) > 4000 THEN SubSeq(c, 1, 4000)
        ELSE c \o Zeros(4000 - Len(c))
ExpectedLabel(i) == int(FieldsOf(i)[2]).val
\* the returned call that appended the k-th vector
FromCall(k) == CHOOSE i \in 1..Len(log) : Ok(i) /\ log[i].nX = k

\* C14: a returned call appends exactly one vector at the end of X and one
\* label at the end of y and leaves the earlier entries as they were, so that
\* X[k] and y[k] always come from the same record, in the order read.
C14_AppendOnlyPaired ==
    /\ \A i \in 1..Len(log) :
         Ok(i) => log[i].nX = PrevX(i) + 1 /\ log[i].ny = PrevY(i) + 1
    /\ \A k \in 1..Len(X_train) :
         LET i == FromCall(k)
         IN  /\ X_train[k] = ExpectedVec(i)
             /\ k <= Len(y_train) /\ y_train[k] = ExpectedLabel(i)

====
